---- MODULE Spec2Model ----
(***************************************************************************)
(* Model of src/script.py: the auto mode of the Dataset 9 scraper.         *)
(*                                                                         *)
(* The durable state is the Index document (INDEX_FILE), the Cursor        *)
(* document (STATE_FILE) and the files of OUTPUT_DIR.  The process state   *)
(* is the memory of one invocation of auto_scrape_and_download: the        *)
(* Orchestrator loop, the Navigator (_scrape_pages_for_batch) and the      *)
(* Downloader (_download_batch), each with its local variables and a       *)
(* program counter.  Every action performs at most one durable write or    *)
(* one exchange with the remote site, so that a kill of the process        *)
(* (action Restart) can fall between any two of them.                      *)
(*                                                                         *)
(* The remote site is the environment: what a listing page renders         *)
(* (links, an access-denied page, nothing), whether the "Next page"        *)
(* control is found, whether a navigation raises, and what each download   *)
(* attempt returns are chosen nondeterministically at every exchange.      *)
(*                                                                         *)
(* Spec is the script on storage that works.  StorageSpec adds, for every  *)
(* call of _save_index and _save_state, the outcome in which it raises.    *)
(* FairSpec is Spec with the fairness of a process that keeps running.     *)
(* PageSpec is lines 245-256 on any markup: the Access-Gate Detector and   *)
(* the link collection as functions of the markup, which Spec abstracts    *)
(* into what the page renders.                                             *)
(***************************************************************************)
EXTENDS Integers, Sequences, FiniteSets, TLC

(***************************************************************************)
(* Bounds of the model.                                                    *)
(***************************************************************************)
\* Number of listing pages of the remote site: pages 0 .. NumPages-1.
NumPages == 2
\* Number of invocations of the script (the first run plus the restarts).
MaxRuns == 2
\* Largest numeric batch size given on the command line.
MaxBatch == 1

(***************************************************************************)
(* Program constants.                                                      *)
(***************************************************************************)
\* DOWNLOAD_RETRIES = 5
DOWNLOAD_RETRIES == 5
\* BATCH_SIZE = None: no per-batch limit.  None is written 0 here; a numeric
\* batch size of the model is always >= 1.
NoLimit == 0

\* The batch sizes an invocation may be given (main: "auto [batch_size|all]").
BatchSizes == {NoLimit} \cup (1..MaxBatch)

(***************************************************************************)
(* The remote listing.  A href is [host, dir, name]: host "" is a href     *)
(* that starts with "/", name is its last path segment.  Page 0 lists file *)
(* 0 twice under two directories and file 1; page p > 0 lists file p       *)
(* (already listed by page p-1) and file p+1.                              *)
(***************************************************************************)
Files == 0..NumPages
Pages == 0..(NumPages - 1)
LastPage == NumPages - 1

Href(host, dir, name) == [host |-> host, dir |-> dir, name |-> name]

Listing(p) ==
    IF p = 0
    THEN << Href("", "files", 0), Href("", "mirror", 0), Href("", "files", 1) >>
    ELSE << Href("", "files", p), Href("https://cdn", "files", p + 1) >>

\* filename = href.split("/")[-1]
Filename(href) == href.name

\* f"https://www.justice.gov{href}" if href.startswith("/") else href
Url(href) ==
    IF href.host = "" THEN [href EXCEPT !.host = "https://www.justice.gov"]
    ELSE href

VARIABLES
    \* durable storage
    index_file,         \* INDEX_FILE: the persisted Index (<<>> when absent)
    state_file,         \* STATE_FILE: the persisted Cursor
    disk,               \* OUTPUT_DIR: per file name "absent", "partial", "complete"
    \* auto_scrape_and_download
    pc,
    batch_size,
    all_files,
    file_set,
    state,
    \* _scrape_pages_for_batch
    new_files,          \* positions in all_files of the records of this round
    page_new_files,     \* positions in all_files of the records of this page
    existing_files,
    target_page,
    current_page,
    page,               \* the listing page the browser shows
    html,               \* page.content(): the markup, a sequence of tokens
    links,              \* what _collect_links_from_page returned
    \* _download_batch
    batch,              \* positions in all_files of the records of the batch
    caller,             \* "drain", "page" or "round": the call site
    dl_existing_files,
    i,
    attempt,
    success,
    downloaded,
    skipped,
    failed,
    \* observation
    runs,               \* invocations so far
    io,                 \* what the last step did to the outside world
    hist                \* facts about this invocation recorded for the properties

durable == << index_file, state_file, disk >>
orch == << batch_size, all_files, file_set, state >>
nav == << new_files, page_new_files, existing_files, target_page, current_page, page >>
dl == << batch, caller, dl_existing_files, i, attempt, success, downloaded, skipped, failed >>
\* The markup is looked at within one step of the main specification (see
\* Renders); it is state only in the specification of the page, PageSpec.
markup == << html, links >>
vars == << index_file, state_file, disk, pc, batch_size, all_files, file_set, state,
           new_files, page_new_files, existing_files, target_page, current_page, page,
           batch, caller, dl_existing_files, i, attempt, success, downloaded, skipped,
           failed, runs, io, hist, html, links >>

(***************************************************************************)
(* Helpers.                                                                *)
(***************************************************************************)
Names(idx) == { idx[k].filename : k \in 1..Len(idx) }

\* _existing_file_names(): the names of the files of OUTPUT_DIR.
ExistingFileNames == { f \in Files : disk[f] # "absent" }

\* pending = [f for f in all_files if not f.get("downloaded")], as positions.
RECURSIVE PendingFrom(_, _)
PendingFrom(idx, k) ==
    IF k > Len(idx) THEN << >>
    ELSE IF ~idx[k].downloaded THEN << k >> \o PendingFrom(idx, k + 1)
    ELSE PendingFrom(idx, k + 1)

Pending(idx) == PendingFrom(idx, 1)

\* pending if batch_size is None else pending[:batch_size]
Prefix(s, n) == IF n = NoLimit \/ Len(s) <= n THEN s ELSE SubSeq(s, 1, n)

\* Local variables of a function that is not running.
NavIdle ==
    /\ new_files = << >>
    /\ page_new_files = << >>
    /\ existing_files = {}
    /\ target_page = 0
    /\ current_page = 0
    /\ page = 0

DlIdle ==
    /\ batch = << >>
    /\ caller = "none"
    /\ dl_existing_files = {}
    /\ i = 0
    /\ attempt = 0
    /\ success = FALSE
    /\ downloaded = 0
    /\ skipped = 0
    /\ failed = 0

NavIdle_next ==
    /\ new_files' = << >>
    /\ page_new_files' = << >>
    /\ existing_files' = {}
    /\ target_page' = 0
    /\ current_page' = 0
    /\ page' = 0

DlIdle_next ==
    /\ batch' = << >>
    /\ caller' = "none"
    /\ dl_existing_files' = {}
    /\ i' = 0
    /\ attempt' = 0
    /\ success' = FALSE
    /\ downloaded' = 0
    /\ skipped' = 0
    /\ failed' = 0

\* The Index and the Cursor are complete: every file of the listing has a
\* record, every record is downloaded, and the Cursor is past the last page.
Complete(idx, st) ==
    /\ Names(idx) = Files
    /\ \A k \in 1..Len(idx) : idx[k].downloaded
    /\ st.next_page = NumPages

\* What an invocation has recorded about itself when it starts.
FreshHist(idx, st) ==
    [ start_next     |-> st.next_page,     \* the Cursor as loaded
      start_len      |-> Len(idx),         \* the length of the Index as loaded
      start_complete |-> Complete(idx, st),
      first_page     |-> -1,               \* first page links were extracted from
      failed_sites   |-> {},               \* call sites whose batch ended failed > 0
      blocked_at     |-> -1,               \* page the Access-Gate Detector blocked
      stop           |-> "none",           \* why the last round stopped
      stop_found     |-> FALSE,            \* that round had new files when it stopped
      capped         |-> FALSE,            \* an invocation so far had a numeric batch size
      drain_pending  |-> 0,                \* pending records when the running drain began
      round_len      |-> 0 ]               \* length of the Index when the running round began

\* Load without line 399: file_set starts empty whatever the Index holds.
Load_NoFileSet(bs) ==
    /\ batch_size' = bs
    /\ all_files' = index_file
    /\ file_set' = {}
    /\ state' = state_file
    /\ pc' = "loop"
    /\ NavIdle_next
    /\ DlIdle_next
    /\ io' = {}
    /\ hist' = [FreshHist(index_file, state_file) EXCEPT
                   !.capped = hist.capped \/ bs # NoLimit]

(***************************************************************************)
(* auto_scrape_and_download, lines 398-400: load the Index and the Cursor. *)
(***************************************************************************)
Load(bs) ==
    /\ batch_size' = bs
    /\ all_files' = index_file
    /\ file_set' = Names(index_file)
    /\ state' = state_file
    /\ pc' = "loop"
    /\ NavIdle_next
    /\ DlIdle_next
    /\ io' = {}
    /\ hist' = [FreshHist(index_file, state_file) EXCEPT
                   !.capped = hist.capped \/ bs # NoLimit]

Init ==
    /\ index_file = << >>
    /\ state_file = [next_page |-> 0]
    /\ disk = [f \in Files |-> "absent"]
    /\ runs = 1
    /\ batch_size \in BatchSizes
    /\ all_files = << >>
    /\ file_set = {}
    /\ state = [next_page |-> 0]
    /\ pc = "loop"
    /\ NavIdle
    /\ DlIdle
    /\ io = {}
    /\ hist = [FreshHist(<< >>, [next_page |-> 0]) EXCEPT
                  !.capped = batch_size # NoLimit]
    /\ html = << >>
    /\ links = << >>

\* The process ends (it returned, an exception left it, or it was killed) and
\* the script is invoked again.
Restart ==
    /\ runs < MaxRuns
    /\ runs' = runs + 1
    /\ \E bs \in BatchSizes : Load(bs)
    /\ UNCHANGED durable
    /\ UNCHANGED markup

(***************************************************************************)
(* auto_scrape_and_download, lines 402-415: the head of the loop.          *)
(***************************************************************************)
\* Lines 403-407: something is pending, the Downloader is run on it.
DrainPending ==
    /\ pc = "loop"
    /\ Pending(all_files) # << >>
    /\ batch' = Prefix(Pending(all_files), batch_size)
    /\ caller' = "drain"
    /\ pc' = "dl_start"
    /\ io' = {}
    /\ hist' = [hist EXCEPT !.drain_pending = Len(Pending(all_files))]
    /\ UNCHANGED << durable, orch, nav, dl_existing_files, i, attempt, success,
                    downloaded, skipped, failed, runs >>
    /\ UNCHANGED markup

\* EnterCrawl without the test of line 405: a round is run whatever is pending.
EnterCrawl_Always ==
    /\ pc = "loop"
    /\ pc' = "scrape_start"
    /\ io' = {}
    /\ UNCHANGED << durable, orch, nav, dl, runs, hist >>
    /\ UNCHANGED markup

\* Line 415: nothing is pending, the Navigator is run for one round.
EnterCrawl ==
    /\ pc = "loop"
    /\ Pending(all_files) = << >>
    /\ pc' = "scrape_start"
    /\ io' = {}
    /\ UNCHANGED << durable, orch, nav, dl, runs, hist >>
    /\ UNCHANGED markup

(***************************************************************************)
(* _download_batch.                                                        *)
(***************************************************************************)
\* The responses of session.get: the status, the content type, and where the
\* exchange raises (nowhere, before the response, while the body is streamed).
Responses ==
    [ status : {200, 404},
      content_type : {"application/pdf", "text/html"},
      raises : {"no", "connect", "stream"} ]

\* Lines 353-360: the attempt raises before the destination file is opened.
FailsBeforeWrite(resp) ==
    \/ resp.raises = "connect"
    \/ resp.status # 200
    \/ resp.content_type = "text/html"

\* Lines 361-364: the attempt raises after open(output_path, "wb").
FailsWhileWriting(resp) == ~FailsBeforeWrite(resp) /\ resp.raises = "stream"

\* DestinationExists that trusts the flag of the record instead of the disk.
DestinationExists_Flag(filename) ==
    \E k \in 1..Len(all_files) :
        all_files[k].filename = filename /\ all_files[k].downloaded

\* Line 342: output_path.exists() or filename in existing_files
DestinationExists(filename) ==
    disk[filename] # "absent" \/ filename \in dl_existing_files

\* for ... in enumerate(batch, start=1) has run out.
DlReturned == pc = "dl_check" /\ i > Len(batch)

\* Lines 306-335: the snapshot of OUTPUT_DIR, the session, the counters.
DlStart ==
    /\ pc = "dl_start"
    /\ dl_existing_files' = (IF batch = << >> THEN {} ELSE ExistingFileNames)
    /\ downloaded' = 0
    /\ skipped' = 0
    /\ failed' = 0
    /\ i' = 1
    /\ attempt' = 0
    /\ success' = FALSE
    /\ pc' = "dl_check"
    /\ io' = {"batch_start"}
    /\ UNCHANGED << durable, orch, nav, batch, caller, runs, hist >>
    /\ UNCHANGED markup

\* Lines 342-346: the destination exists: mark, count, save, continue.
DlSkip ==
    /\ pc = "dl_check"
    /\ i <= Len(batch)
    /\ DestinationExists(all_files[batch[i]].filename)
    /\ all_files' = [all_files EXCEPT ![batch[i]].downloaded = TRUE]
    /\ skipped' = skipped + 1
    /\ index_file' = all_files'
    /\ i' = i + 1
    /\ io' = {"save_index"}
    /\ UNCHANGED << state_file, disk, pc, batch_size, file_set, state, nav, batch,
                    caller, dl_existing_files, attempt, success, downloaded, failed,
                    runs, hist >>
    /\ UNCHANGED markup

\* Lines 348-351: the destination does not exist: the retry loop begins.
DlBegin ==
    /\ pc = "dl_check"
    /\ i <= Len(batch)
    /\ ~DestinationExists(all_files[batch[i]].filename)
    /\ success' = FALSE
    /\ attempt' = 1
    /\ pc' = "dl_try"
    /\ io' = {}
    /\ UNCHANGED << durable, orch, nav, batch, caller, dl_existing_files, i,
                    downloaded, skipped, failed, runs, hist >>
    /\ UNCHANGED markup

\* Lines 365-368: the attempt went through: mark, count, leave the retry loop.
AttemptSucceeds(filename) ==
    /\ disk' = [disk EXCEPT ![filename] = "complete"]
    /\ all_files' = [all_files EXCEPT ![batch[i]].downloaded = TRUE]
    /\ downloaded' = downloaded + 1
    /\ success' = TRUE
    /\ attempt' = attempt
    /\ pc' = "dl_save"
    /\ io' = {"http_get", "file_write"}

\* AttemptFails with the bound of the retry loop off by one.
AttemptFails_OneMore(filename, resp) ==
    /\ disk' = (IF FailsWhileWriting(resp)
                THEN [disk EXCEPT ![filename] = "partial"] ELSE disk)
    /\ io' = (IF FailsWhileWriting(resp)
              THEN {"http_get", "file_write"} ELSE {"http_get"})
    /\ UNCHANGED << all_files, downloaded, success >>
    /\ IF attempt <= DOWNLOAD_RETRIES
       THEN attempt' = attempt + 1 /\ pc' = "dl_try"
       ELSE attempt' = attempt /\ pc' = "dl_save"

\* Lines 369-371: the attempt raised: the next attempt, or the loop runs out.
AttemptFails(filename, resp) ==
    /\ disk' = (IF FailsWhileWriting(resp)
                THEN [disk EXCEPT ![filename] = "partial"] ELSE disk)
    /\ io' = (IF FailsWhileWriting(resp)
              THEN {"http_get", "file_write"} ELSE {"http_get"})
    /\ UNCHANGED << all_files, downloaded, success >>
    /\ IF attempt < DOWNLOAD_RETRIES
       THEN attempt' = attempt + 1 /\ pc' = "dl_try"
       ELSE attempt' = attempt /\ pc' = "dl_save"

\* Lines 351-371: one attempt of for attempt in range(1, DOWNLOAD_RETRIES + 1).
DlAttempt ==
    /\ pc = "dl_try"
    /\ \E resp \in Responses :
          IF FailsBeforeWrite(resp) \/ FailsWhileWriting(resp)
          THEN AttemptFails(all_files[batch[i]].filename, resp)
          ELSE AttemptSucceeds(all_files[batch[i]].filename)
    /\ UNCHANGED << index_file, state_file, batch_size, file_set, state, nav, batch,
                    caller, dl_existing_files, i, skipped, failed, runs, hist >>
    /\ UNCHANGED markup

\* DlFinish without line 376: the Index is written when the batch returns.
DlFinish_Batched ==
    /\ pc = "dl_save"
    /\ failed' = (IF success THEN failed ELSE failed + 1)
    /\ i' = i + 1
    /\ attempt' = 0
    /\ success' = FALSE
    /\ pc' = "dl_check"
    /\ io' = {}
    /\ UNCHANGED << durable, orch, nav, batch, caller, dl_existing_files,
                    downloaded, skipped, runs, hist >>
    /\ UNCHANGED markup

\* Lines 373-377: count the failure, save the Index, go to the next record.
DlFinish ==
    /\ pc = "dl_save"
    /\ failed' = (IF success THEN failed ELSE failed + 1)
    /\ index_file' = all_files
    /\ i' = i + 1
    /\ attempt' = 0
    /\ success' = FALSE
    /\ pc' = "dl_check"
    /\ io' = {"save_index"}
    /\ UNCHANGED << state_file, disk, orch, nav, batch, caller, dl_existing_files,
                    downloaded, skipped, runs, hist >>
    /\ UNCHANGED markup

(***************************************************************************)
(* The three call sites of _download_batch, after it returned.             *)
(***************************************************************************)
NoteFailure(site) ==
    IF failed > 0
    THEN [hist EXCEPT !.failed_sites = @ \cup {site}] ELSE hist

\* DrainReturn without the test of line 410: the loop goes on after a failure.
DrainReturn_NoHalt ==
    /\ DlReturned
    /\ caller = "drain"
    /\ index_file' = all_files
    /\ pc' = "loop"
    /\ hist' = [NoteFailure("drain") EXCEPT !.drain_pending = 0]
    /\ DlIdle_next
    /\ io' = {"save_index"}
    /\ UNCHANGED << state_file, disk, orch, nav, runs >>
    /\ UNCHANGED markup

\* Lines 407-413: the drain batch returned.
DrainReturn ==
    /\ DlReturned
    /\ caller = "drain"
    /\ index_file' = all_files
    /\ pc' = (IF failed > 0 THEN "halted" ELSE "loop")
    /\ hist' = [NoteFailure("drain") EXCEPT !.drain_pending = 0]
    /\ DlIdle_next
    /\ io' = {"save_index"}
    /\ UNCHANGED << state_file, disk, orch, nav, runs >>
    /\ UNCHANGED markup

\* RoundReturn without the test of line 424: the loop goes on after a failure.
RoundReturn_NoHalt ==
    /\ DlReturned
    /\ caller = "round"
    /\ index_file' = all_files
    /\ pc' = "loop"
    /\ hist' = NoteFailure("round")
    /\ DlIdle_next
    /\ io' = {"save_index"}
    /\ UNCHANGED << state_file, disk, orch, nav, runs >>
    /\ UNCHANGED markup

\* Lines 421-426: the batch of the round's new files returned.
RoundReturn ==
    /\ DlReturned
    /\ caller = "round"
    /\ index_file' = all_files
    /\ pc' = (IF failed > 0 THEN "halted" ELSE "loop")
    /\ hist' = NoteFailure("round")
    /\ DlIdle_next
    /\ io' = {"save_index"}
    /\ UNCHANGED << state_file, disk, orch, nav, runs >>
    /\ UNCHANGED markup

\* Lines 278-281: the batch of the page's new files returned.
PageReturn ==
    /\ DlReturned
    /\ caller = "page"
    /\ index_file' = all_files
    /\ pc' = "advance"
    /\ hist' = NoteFailure("page")
    /\ DlIdle_next
    /\ io' = {"save_index"}
    /\ UNCHANGED << state_file, disk, orch, nav, runs >>
    /\ UNCHANGED markup

(***************************************************************************)
(* _scrape_pages_for_batch.                                                *)
(***************************************************************************)
\* What the browser shows when the markup of the page is read: the listing,
\* an access-denied page, or a page without any file link.
Renders == {"links", "denied", "empty"}

\* next_btn.count() > 0: the last page has no "Next page" control; on another
\* page the control is there or, when the page did not render it, is not.
NextFound(found) == found => page < LastPage

\* AddLink without the test of line 261: every link gets a record.
AddLink_NoCheck(st, href) ==
    LET record == [ filename   |-> Filename(href),
                    url        |-> Url(href),
                    downloaded |-> Filename(href) \in existing_files ]
        n == Len(st.all_files) + 1
    IN  [ file_set       |-> st.file_set \cup {Filename(href)},
          all_files      |-> Append(st.all_files, record),
          new_files      |-> Append(st.new_files, n),
          page_new_files |-> Append(st.page_new_files, n),
          stop           |-> batch_size # NoLimit
                             /\ Len(st.new_files) + 1 >= batch_size ]

\* AddLink that, for a known file name, rebuilds the record in place from the
\* link instead of leaving it alone.
AddLink_Refresh(st, href) ==
    LET record == [ filename   |-> Filename(href),
                    url        |-> Url(href),
                    downloaded |-> Filename(href) \in existing_files ]
        n == Len(st.all_files) + 1
    IN  IF Filename(href) \notin st.file_set
        THEN [ file_set       |-> st.file_set \cup {Filename(href)},
               all_files      |-> Append(st.all_files, record),
               new_files      |-> Append(st.new_files, n),
               page_new_files |-> Append(st.page_new_files, n),
               stop           |-> batch_size # NoLimit
                                  /\ Len(st.new_files) + 1 >= batch_size ]
        ELSE [ st EXCEPT !.all_files =
                 [ k \in 1..Len(st.all_files) |->
                     IF st.all_files[k].filename = Filename(href)
                     THEN record ELSE st.all_files[k] ] ]

\* AddLink whose break of line 272 does not look at batch_size: the loop over
\* the links ends at the first new file.
AddLink_BreakAlways(st, href) ==
    IF Filename(href) \notin st.file_set
    THEN LET record == [ filename   |-> Filename(href),
                         url        |-> Url(href),
                         downloaded |-> Filename(href) \in existing_files ]
             n == Len(st.all_files) + 1
         IN  [ file_set       |-> st.file_set \cup {Filename(href)},
               all_files      |-> Append(st.all_files, record),
               new_files      |-> Append(st.new_files, n),
               page_new_files |-> Append(st.page_new_files, n),
               stop           |-> TRUE ]
    ELSE st

\* Lines 260-272: one link of the page.  st holds all_files, file_set,
\* new_files, page_new_files and stop (the break of line 272).
AddLink(st, href) ==
    IF Filename(href) \notin st.file_set
    THEN LET record == [ filename   |-> Filename(href),
                         url        |-> Url(href),
                         downloaded |-> Filename(href) \in existing_files ]
             n == Len(st.all_files) + 1
         IN  [ file_set       |-> st.file_set \cup {Filename(href)},
               all_files      |-> Append(st.all_files, record),
               new_files      |-> Append(st.new_files, n),
               page_new_files |-> Append(st.page_new_files, n),
               stop           |-> batch_size # NoLimit
                                  /\ Len(st.new_files) + 1 >= batch_size ]
    ELSE st

\* Lines 258-272: for href in links.
RECURSIVE AddLinks(_, _, _)
AddLinks(st, hrefs, k) ==
    IF k > Len(hrefs) \/ st.stop THEN st
    ELSE AddLinks(AddLink(st, hrefs[k]), hrefs, k + 1)

ScanPage(hrefs) ==
    AddLinks([ file_set |-> file_set, all_files |-> all_files,
               new_files |-> new_files, page_new_files |-> << >>,
               stop |-> FALSE ], hrefs, 1)

\* Lines 207-230: the snapshot of OUTPUT_DIR, the browser session, page 0.
ScrapeStart ==
    /\ pc = "scrape_start"
    /\ io' = {"page_fetch"}
    /\ \E raises \in BOOLEAN :
          IF raises
          THEN /\ pc' = "crashed"
               /\ UNCHANGED << nav, hist >>
          ELSE /\ hist' = [hist EXCEPT !.round_len = Len(all_files)]
               /\ new_files' = << >>
               /\ page_new_files' = << >>
               /\ existing_files' = ExistingFileNames
               /\ page' = 0
               /\ target_page' = state.next_page
               /\ current_page' = 0
               /\ pc' = (IF 0 < state.next_page THEN "resume" ELSE "scrape_loop")
    /\ UNCHANGED << durable, orch, dl, runs >>
    /\ UNCHANGED markup

\* Lines 231-239: one turn of while current_page < target_page.
ResumeStep ==
    /\ pc = "resume"
    /\ \E found \in BOOLEAN, raises \in BOOLEAN :
          /\ NextFound(found)
          /\ IF ~found
             THEN /\ ~raises
                  /\ pc' = "scrape_loop"
                  /\ io' = {}
                  /\ UNCHANGED << page, current_page >>
             ELSE /\ io' = {"page_fetch"}
                  /\ IF raises
                     THEN pc' = "crashed" /\ UNCHANGED << page, current_page >>
                     ELSE /\ page' = page + 1
                          /\ current_page' = current_page + 1
                          /\ pc' = (IF current_page + 1 < target_page
                                    THEN "resume" ELSE "scrape_loop")
    /\ UNCHANGED << durable, orch, new_files, page_new_files, existing_files,
                    target_page, dl, runs, hist >>
    /\ UNCHANGED markup

\* The round stops: why, and whether it has found a new file so far.
RoundStops(why) == [hist EXCEPT !.stop = why, !.stop_found = new_files # << >>]

\* Line 242: the round goes on.
RoundOpen == batch_size = NoLimit \/ Len(new_files) < batch_size

\* Lines 245-249: the page is an access-denied page.
PageDenied ==
    /\ pc' = "scrape_return"
    /\ io' = {"debug_snapshot"}
    /\ hist' = [RoundStops("blocked") EXCEPT !.blocked_at = current_page]
    /\ UNCHANGED << durable, orch, nav, dl >>

\* PageEmpty that goes on to the next page instead of leaving the loop.
PageEmpty_Skip ==
    /\ pc' = "advance"
    /\ io' = {"debug_snapshot"}
    /\ hist' = RoundStops("empty")
    /\ UNCHANGED << durable, orch, nav, dl >>

\* Lines 251-256: no link on the page.
PageEmpty ==
    /\ pc' = "scrape_return"
    /\ io' = {"debug_snapshot"}
    /\ hist' = RoundStops("empty")
    /\ UNCHANGED << durable, orch, nav, dl >>

\* Lines 258-278: the links of the page; its new files go to the Downloader.
PageLinks ==
    LET st == ScanPage(Listing(page)) IN
    /\ all_files' = st.all_files
    /\ file_set' = st.file_set
    /\ new_files' = st.new_files
    /\ page_new_files' = st.page_new_files
    /\ hist' = (IF hist.first_page = -1
                THEN [hist EXCEPT !.first_page = page] ELSE hist)
    /\ io' = {}
    /\ IF st.page_new_files # << >>
       THEN /\ batch' = st.page_new_files
            /\ caller' = "page"
            /\ pc' = "dl_start"
       ELSE /\ pc' = "advance"
            /\ UNCHANGED << batch, caller >>
    /\ UNCHANGED << durable, batch_size, state, existing_files, target_page,
                    current_page, page, dl_existing_files, i, attempt, success,
                    downloaded, skipped, failed >>

\* Lines 242-278: one page of the main loop.
ScrapePage ==
    /\ pc = "scrape_loop"
    /\ RoundOpen
    /\ \E render \in Renders :
          CASE render = "denied" -> PageDenied
            [] render = "empty"  -> PageEmpty
            [] render = "links"  -> PageLinks
    /\ UNCHANGED runs
    /\ UNCHANGED markup

\* Line 242: the round has its batch_size new files.
ScrapeFull ==
    /\ pc = "scrape_loop"
    /\ ~RoundOpen
    /\ pc' = "scrape_return"
    /\ io' = {}
    /\ hist' = RoundStops("full")
    /\ UNCHANGED << durable, orch, nav, dl, runs >>
    /\ UNCHANGED markup

\* Lines 283-285: the Cursor moves on and is saved.
Advance ==
    /\ pc = "advance"
    /\ current_page' = current_page + 1
    /\ state' = [state EXCEPT !.next_page = current_page + 1]
    /\ state_file' = state'
    /\ page_new_files' = << >>
    /\ pc' = "save_index"
    /\ io' = {"save_state"}
    /\ UNCHANGED << index_file, disk, batch_size, all_files, file_set, new_files,
                    existing_files, target_page, page, dl, runs, hist >>
    /\ UNCHANGED markup

\* Line 286: the Index is saved.
SaveIndex ==
    /\ pc = "save_index"
    /\ index_file' = all_files
    /\ pc' = "next"
    /\ io' = {"save_index"}
    /\ UNCHANGED << state_file, disk, orch, nav, dl, runs, hist >>
    /\ UNCHANGED markup

\* Lines 289-297: the "Next page" control is clicked, or the round stops.
NextPage ==
    /\ pc = "next"
    /\ \E found \in BOOLEAN, raises \in BOOLEAN :
          /\ NextFound(found)
          /\ IF ~found
             THEN /\ ~raises
                  /\ pc' = "scrape_return"
                  /\ io' = {}
                  /\ hist' = RoundStops("no_next")
                  /\ UNCHANGED page
             ELSE /\ io' = {"page_fetch"}
                  /\ UNCHANGED hist
                  /\ IF raises
                     THEN pc' = "crashed" /\ UNCHANGED page
                     ELSE page' = page + 1 /\ pc' = "scrape_loop"
    /\ UNCHANGED << durable, orch, new_files, page_new_files, existing_files,
                    target_page, current_page, dl, runs >>
    /\ UNCHANGED markup

\* Lines 299-301 and 416-421: the round returns its new files.
ScrapeReturn ==
    /\ pc = "scrape_return"
    /\ IF new_files = << >>
       THEN /\ pc' = "done"
            /\ UNCHANGED << batch, caller >>
       ELSE /\ batch' = new_files
            /\ caller' = "round"
            /\ pc' = "dl_start"
    /\ NavIdle_next
    /\ io' = {}
    /\ hist' = [hist EXCEPT !.round_len = 0]
    /\ UNCHANGED << durable, orch, dl_existing_files, i, attempt, success,
                    downloaded, skipped, failed, runs >>
    /\ UNCHANGED markup

(***************************************************************************)
(* The specification.                                                      *)
(***************************************************************************)
Next ==
    \/ DrainPending
    \/ EnterCrawl
    \/ DlStart
    \/ DlSkip
    \/ DlBegin
    \/ DlAttempt
    \/ DlFinish
    \/ DrainReturn
    \/ RoundReturn
    \/ PageReturn
    \/ ScrapeStart
    \/ ResumeStep
    \/ ScrapePage
    \/ ScrapeFull
    \/ Advance
    \/ SaveIndex
    \/ NextPage
    \/ ScrapeReturn
    \/ Restart

Spec == Init /\ [][Next]_vars

\* The steps of the script itself.  asyncio.run runs the one coroutine until
\* it returns, and every collaborator returns: a step that can be taken is
\* taken.  A kill (Restart) is not owed.
Program ==
    \/ DrainPending \/ EnterCrawl
    \/ DlStart \/ DlSkip \/ DlBegin \/ DlAttempt \/ DlFinish
    \/ DrainReturn \/ RoundReturn \/ PageReturn
    \/ ScrapeStart \/ ResumeStep \/ ScrapePage \/ ScrapeFull
    \/ Advance \/ SaveIndex \/ NextPage \/ ScrapeReturn

FairSpec == Init /\ [][Next]_vars /\ WF_vars(Program)

TypeOK ==
    /\ pc \in {"loop", "dl_start", "dl_check", "dl_try", "dl_save", "scrape_start",
               "resume", "scrape_loop", "advance", "save_index", "next",
               "scrape_return", "done", "halted", "crashed"}
    /\ batch_size \in BatchSizes
    /\ state.next_page \in 0..NumPages
    /\ state_file.next_page \in 0..NumPages
    /\ page \in Pages
    /\ attempt \in 0..DOWNLOAD_RETRIES
    /\ Len(all_files) <= Cardinality(Files)

(***************************************************************************)
(* Storage that can fail.  _save_json raises (the directory or the file    *)
(* cannot be written) and leaves the document as it was.  No call of       *)
(* _save_index or _save_state is inside a try: the exception leaves        *)
(* _download_batch, _scrape_pages_for_batch and auto_scrape_and_download.  *)
(***************************************************************************)
SaveRaises ==
    /\ pc' = "crashed"
    /\ io' = {"save_failed"}
    /\ UNCHANGED << durable, runs, hist, markup >>

\* Line 345 raises, after lines 343-344.
DlSkipSaveFails ==
    /\ pc = "dl_check"
    /\ i <= Len(batch)
    /\ DestinationExists(all_files[batch[i]].filename)
    /\ all_files' = [all_files EXCEPT ![batch[i]].downloaded = TRUE]
    /\ skipped' = skipped + 1
    /\ SaveRaises
    /\ UNCHANGED << batch_size, file_set, state, nav, batch, caller,
                    dl_existing_files, i, attempt, success, downloaded, failed >>

\* Line 376 raises, after lines 373-374.
DlFinishSaveFails ==
    /\ pc = "dl_save"
    /\ failed' = (IF success THEN failed ELSE failed + 1)
    /\ SaveRaises
    /\ UNCHANGED << orch, nav, batch, caller, dl_existing_files, i, attempt,
                    success, downloaded, skipped >>

\* Line 279, 408 or 422 raises: the save after the batch returned.
ReturnSaveFails ==
    /\ DlReturned
    /\ SaveRaises
    /\ UNCHANGED << orch, nav, dl >>

\* Line 285 raises, after lines 283-284.
AdvanceSaveFails ==
    /\ pc = "advance"
    /\ current_page' = current_page + 1
    /\ state' = [state EXCEPT !.next_page = current_page + 1]
    /\ SaveRaises
    /\ UNCHANGED << batch_size, all_files, file_set, new_files, page_new_files,
                    existing_files, target_page, page, dl >>

\* Line 286 raises.
SaveIndexFails ==
    /\ pc = "save_index"
    /\ SaveRaises
    /\ UNCHANGED << orch, nav, dl >>

StorageNext ==
    \/ Next
    \/ DlSkipSaveFails
    \/ DlFinishSaveFails
    \/ ReturnSaveFails
    \/ AdvanceSaveFails
    \/ SaveIndexFails

StorageSpec == Init /\ [][StorageNext]_vars

(***************************************************************************)
(* The markup of a page and the functions that read it.  A markup is a     *)
(* sequence of tokens: an anchor element with its href, an href="..."      *)
(* attribute outside any anchor element, or a piece of text.               *)
(***************************************************************************)
MaxTokens == 3

\* How an href ends.
Exts == {"pdf", "PDF", "htm"}

\* The hrefs of the markups.  marker: the string holds "/epstein/files/" and
\* a name after it.
Refs ==
    [marker : {TRUE}, name : {"a", "b"}, ext : Exts]
      \cup {[marker |-> FALSE, name |-> "a", ext |-> "pdf"]}

\* The phrases of lines 118-123, and the prompt of the age gate.
PermissionPhrase == "you don't have permission to access"
EdgePhrase == "errors.edgesuite.net"
ReferencePhrase == "reference #"
DeniedPhrase == "access denied"
AgePhrase == "are you 18 years of age or older?"
Phrases == {PermissionPhrase, EdgePhrase, ReferencePhrase, DeniedPhrase, AgePhrase}

\* upper: the markup spells the phrase with capital letters.
Tokens ==
    [kind : {"a", "attr"}, href : Refs]
      \cup [kind : {"text"}, phrase : Phrases, upper : BOOLEAN]

Markups == UNION { [1..n -> Tokens] : n \in 0..MaxTokens }

\* str.lower() of an extension and of a markup.
LowerExt(e) == IF e = "PDF" THEN "pdf" ELSE e

Lower(m) ==
    [ k \in 1..Len(m) |->
        IF m[k].kind = "text" THEN [m[k] EXCEPT !.upper = FALSE]
        ELSE [m[k] EXCEPT !.href.ext = LowerExt(@)] ]

\* phrase in lowered: the substring test, which is case-sensitive.
Contains(m, phrase) ==
    \E k \in 1..Len(m) :
        m[k].kind = "text" /\ m[k].phrase = phrase /\ ~m[k].upper

\* is_access_denied for which "access denied" alone is enough.
is_access_denied_loose(m) ==
    IF Len(m) = 0 THEN FALSE
    ELSE LET lowered == Lower(m) IN
         IF Contains(lowered, PermissionPhrase) THEN TRUE
         ELSE IF Contains(lowered, EdgePhrase) THEN TRUE
         ELSE IF Contains(lowered, DeniedPhrase) THEN TRUE
         ELSE FALSE

\* Lines 113-124.
is_access_denied(m) ==
    IF Len(m) = 0 THEN FALSE
    ELSE LET lowered == Lower(m) IN
         IF Contains(lowered, PermissionPhrase) THEN TRUE
         ELSE IF Contains(lowered, EdgePhrase) THEN TRUE
         ELSE IF Contains(lowered, ReferencePhrase)
                 /\ Contains(lowered, DeniedPhrase) THEN TRUE
         ELSE FALSE

\* Lines 169-174; page.content() returned m.
page_is_access_denied(m) == is_access_denied(m)

\* Line 26, LINK_RE: href="...", the marker, a name, ".pdf" in any case.
LINK_RE(tok) ==
    /\ tok.kind \in {"a", "attr"}
    /\ tok.href.marker
    /\ LowerExt(tok.href.ext) = "pdf"

\* LINK_RE.findall(html), from token k on.
RECURSIVE FindAll(_, _)
FindAll(m, k) ==
    IF k > Len(m) THEN << >>
    ELSE (IF LINK_RE(m[k]) THEN << m[k].href >> ELSE << >>) \o FindAll(m, k + 1)

\* Lines 96-101: the loop over matches, with seen and links.
RECURSIVE Unique(_, _, _, _)
Unique(matches, k, seen, out) ==
    IF k > Len(matches) THEN out
    ELSE IF matches[k] \notin seen
         THEN Unique(matches, k + 1, seen \cup {matches[k]}, Append(out, matches[k]))
         ELSE Unique(matches, k + 1, seen, out)

\* Lines 94-102.
extract_links_from_html(m) == Unique(FindAll(m, 1), 1, {}, << >>)

\* Lines 179-183: query_selector_all('a[href*="/epstein/files/"]') and the
\* loop over the handles, from token k on.
RECURSIVE QuerySelectorAll(_, _)
QuerySelectorAll(m, k) ==
    IF k > Len(m) THEN << >>
    ELSE (IF m[k].kind = "a" /\ m[k].href.marker THEN << m[k].href >> ELSE << >>)
           \o QuerySelectorAll(m, k + 1)

\* Lines 177-187.
collect_links_from_page(m) ==
    LET found == QuerySelectorAll(m, 1)
    IN  IF found # << >> THEN found ELSE extract_links_from_html(m)

(***************************************************************************)
(* The specification of one page: lines 245-256 on any markup.             *)
(***************************************************************************)
PageInit ==
    /\ index_file = << >>
    /\ state_file = [next_page |-> 0]
    /\ disk = [f \in Files |-> "absent"]
    /\ runs = 1
    /\ batch_size = NoLimit
    /\ all_files = << >>
    /\ file_set = {}
    /\ state = [next_page |-> 0]
    /\ NavIdle
    /\ DlIdle
    /\ io = {}
    /\ hist = FreshHist(<< >>, [next_page |-> 0])
    /\ pc = "page_loaded"
    /\ html \in Markups
    /\ links = << >>

\* Line 245.
CheckAccess ==
    /\ pc = "page_loaded"
    /\ pc' = (IF page_is_access_denied(html) THEN "page_denied" ELSE "page_clear")
    /\ UNCHANGED << durable, orch, nav, dl, runs, io, hist, markup >>

\* Lines 251-252.
CollectLinks ==
    /\ pc = "page_clear"
    /\ links' = collect_links_from_page(html)
    /\ pc' = (IF links' = << >> THEN "page_empty" ELSE "page_links")
    /\ UNCHANGED << durable, orch, nav, dl, runs, io, hist, html >>

PageNext ==
    \/ CheckAccess
    \/ CollectLinks

PageSpec == PageInit /\ [][PageNext]_vars

(***************************************************************************)
(* Properties.                                                             *)
(***************************************************************************)
NoDuplicate(idx) ==
    \A j, k \in 1..Len(idx) : j # k => idx[j].filename # idx[k].filename

\* idx2 keeps every record of idx at its position, with its name and locator.
KeepsRecords(idx, idx2) ==
    /\ Len(idx2) >= Len(idx)
    /\ \A k \in 1..Len(idx) :
          /\ idx2[k].filename = idx[k].filename
          /\ idx2[k].url = idx[k].url

\* A step of the running invocation (not the start of another one).
SameRun == runs' = runs

\* C1: dedup invariant.  The Index, in memory and persisted, never holds two
\* records of one file name; file_set is exactly the set of the names of the
\* Index, so the length of the Index is the number of distinct names seen; and
\* no step changes the name, the locator or the position of a record the
\* Index holds (the first-seen record is kept, a later link of the same name
\* is dropped).
C1_Dedup ==
    /\ [](/\ NoDuplicate(all_files)
          /\ NoDuplicate(index_file)
          /\ file_set = Names(all_files)
          /\ Len(all_files) = Cardinality(file_set)
          /\ Len(index_file) = Cardinality(Names(index_file)))
    /\ [][/\ KeepsRecords(index_file, index_file')
          /\ SameRun => KeepsRecords(all_files, all_files')]_vars

\* A restarted run has examined the links of a page again, all of them of names
\* the Index holds, and the Index still has one record per file, the first
\* one of file 0 (its "files" link, not the "mirror" link that follows it).
C1_Witness ==
    /\ runs = 2
    /\ hist.first_page # -1
    /\ hist.start_len = NumPages + 1
    /\ Len(all_files) = NumPages + 1
    /\ all_files[1].url = Url(Href("", "files", 0))

\* C2: monotonic flags.  No step turns the downloaded flag of a record of the
\* persisted Index from true to false, and no step of a running invocation
\* turns the flag of a record of the in-memory Index from true to false.
C2_MonotonicFlags ==
    [][/\ \A k \in 1..Len(index_file) :
             index_file[k].downloaded =>
                 (k <= Len(index_file') /\ index_file'[k].downloaded)
       /\ SameRun =>
             \A k \in 1..Len(all_files) :
                 all_files[k].downloaded =>
                     (k <= Len(all_files') /\ all_files'[k].downloaded)]_vars

\* A record is downloaded, in memory and persisted, while the Downloader makes
\* the last failing attempt for another record.
C2_Witness ==
    /\ pc = "dl_save"
    /\ ~success
    /\ \E k \in 1..Len(index_file) :
          index_file[k].downloaded /\ all_files[k].downloaded

\* C3: cursor monotonicity.  No step lowers nextPage, persisted or in memory.
C3_CursorMonotone ==
    [][/\ state_file'.next_page >= state_file.next_page
       /\ SameRun => state'.next_page >= state.next_page]_vars

\* C4: a record is marked downloaded only when its destination file holds the
\* complete body of a response with status 200 and a content type that is not
\* HTML, in the in-memory Index and in the persisted Index.
C4_DownloadedIsComplete ==
    /\ \A k \in 1..Len(all_files) :
          all_files[k].downloaded => disk[all_files[k].filename] = "complete"
    /\ \A k \in 1..Len(index_file) :
          index_file[k].downloaded => disk[index_file[k].filename] = "complete"

\* C5: resume correctness.  In a restarted run the first page links are
\* extracted from is the nextPage that was loaded, and no record appended by
\* the run has a file name of the Index as loaded.
C5_ResumeFromCursor ==
    runs > 1 =>
        /\ hist.first_page # -1 => hist.first_page = hist.start_next
        /\ \A k \in (hist.start_len + 1)..Len(all_files) :
              \A j \in 1..hist.start_len :
                  all_files[k].filename # all_files[j].filename

\* C6: destination-existence short-circuit.  When the Downloader reaches a
\* record whose destination file exists, its step marks the record downloaded,
\* counts it as skipped, saves the Index, goes to the next record, and makes
\* no HTTP request and no file write.
C6_ShortCircuit ==
    [][(/\ pc = "dl_check"
        /\ i <= Len(batch)
        /\ disk[all_files[batch[i]].filename] # "absent"
        /\ SameRun)
       => (/\ all_files'[batch[i]].downloaded
           /\ skipped' = skipped + 1
           /\ downloaded' = downloaded
           /\ failed' = failed
           /\ index_file' = all_files'
           /\ io' = {"save_index"}
           /\ disk' = disk
           /\ pc' = "dl_check"
           /\ i' = i + 1)]_vars

\* The drain batch has skipped a pending record whose destination file was on
\* the disk, and the persisted Index holds the flag.
C6_Witness ==
    /\ pc = "dl_check"
    /\ caller = "drain"
    /\ i > 1
    /\ skipped > 0
    /\ io = {"save_index"}
    /\ index_file[batch[i - 1]].downloaded

\* C7: retry exhaustion.  The retry loop makes one request per attempt and at
\* most DOWNLOAD_RETRIES of them; when it ends without success it has made
\* exactly DOWNLOAD_RETRIES, the record is not marked downloaded, and the next
\* step counts one failure, saves the Index with the flag still false and
\* goes on to the next record of the same batch.
C7_RetryExhaustion ==
    /\ [](pc = "dl_try" => attempt \in 1..DOWNLOAD_RETRIES)
    /\ []((pc = "dl_save" /\ ~success) =>
             /\ attempt = DOWNLOAD_RETRIES
             /\ ~all_files[batch[i]].downloaded)
    /\ [][(pc = "dl_try" /\ SameRun) =>
             /\ "http_get" \in io'
             /\ \/ pc' = "dl_try" /\ attempt' = attempt + 1 /\ ~success'
                \/ pc' = "dl_save" /\ attempt' = attempt]_vars
    /\ [][(pc = "dl_save" /\ ~success /\ SameRun) =>
             /\ failed' = failed + 1
             /\ ~all_files'[batch[i]].downloaded
             /\ ~index_file'[batch[i]].downloaded
             /\ batch' = batch
             /\ i' = i + 1
             /\ pc' = "dl_check"]_vars

\* The first record of a batch failed after its retries and the second one
\* was then downloaded.
C7_Witness ==
    /\ pc = "dl_check"
    /\ Len(batch) >= 2
    /\ i = 3
    /\ failed = 1
    /\ downloaded = 1
    /\ ~all_files[batch[1]].downloaded
    /\ all_files[batch[2]].downloaded

\* C8 as stated: once any batch has ended with a failed file, no listing page
\* is fetched and no batch is started in the invocation.
C8_HaltOnAnyBatchFailure ==
    hist.failed_sites # {} => io \cap {"page_fetch", "batch_start"} = {}

\* C8 as amended: once a batch the Orchestrator itself runs (the drain batch,
\* or the batch of the new files of a round) has ended with a failed file, the
\* process has halted: it fetches no page, starts no batch and takes no step
\* but the start of another invocation.
C8_HaltOnOrchestratorBatchFailure ==
    /\ [](hist.failed_sites \cap {"drain", "round"} # {} =>
             /\ pc = "halted"
             /\ io \cap {"page_fetch", "batch_start", "http_get"} = {})
    /\ [][pc = "halted" => ~SameRun]_vars

\* A batch of a page failed, the round went on, and the batch of the round
\* failed too: the process halted.
C8_Witness ==
    /\ pc = "halted"
    /\ hist.failed_sites = {"page", "round"}

\* C9: hard block.  The step that finds page p blocked appends nothing and
\* ends the round; from then on the Cursor is at p, nothing is appended and no
\* listing page is fetched in the invocation.
C9_BlockStopsInvocation ==
    /\ [][(hist.blocked_at = -1 /\ hist'.blocked_at # -1) =>
             /\ all_files' = all_files
             /\ pc' = "scrape_return"]_vars
    /\ [](hist.blocked_at # -1 =>
             /\ "page_fetch" \notin io
             /\ state_file.next_page = hist.blocked_at)
    /\ [][(hist.blocked_at # -1 /\ SameRun) => all_files' = all_files]_vars

\* C10 as stated: a run that starts from a complete Index and Cursor fetches no
\* listing page, writes no file and leaves the persisted Index and Cursor
\* unchanged.
C10_NoFetchOnRerun ==
    /\ [](hist.start_complete => io \cap {"page_fetch", "file_write"} = {})
    /\ [][(hist.start_complete /\ SameRun) =>
             /\ index_file' = index_file
             /\ state_file' = state_file]_vars

\* C10 as amended: a run that starts from a complete Index and Cursor makes no
\* file request, writes no file, starts no batch, appends no record, leaves
\* the persisted Index unchanged and never raises nextPage.
C10_NoDownloadOnRerun ==
    /\ [](hist.start_complete =>
             /\ io \cap {"http_get", "file_write", "batch_start"} = {}
             /\ all_files = index_file
             /\ Len(index_file) = hist.start_len
             /\ state_file.next_page <= hist.start_next)
    /\ [][(hist.start_complete /\ SameRun) => index_file' = index_file]_vars

\* A run that started from a complete Index and Cursor has scraped a page and
\* declared completion.
C10_Witness ==
    /\ hist.start_complete
    /\ hist.first_page # -1
    /\ pc = "done"

\* The step of the main loop that finds no link on the page (it writes the
\* debug snapshot of lines 252-253).
EmptyPageStep ==
    pc = "scrape_loop" /\ io' = {"debug_snapshot"} /\ hist'.stop = "empty"

\* C11 as stated: when a page yields no link the round stops there, the Cursor and the Index (in memory and persisted) as they
\* were, and the invocation fetches no listing page after that.
C11_EmptyExtractionEndsCrawl ==
    /\ [][EmptyPageStep =>
            /\ pc' = "scrape_return"
            /\ state_file' = state_file /\ state' = state
            /\ index_file' = index_file /\ all_files' = all_files]_vars
    /\ [](hist.stop = "empty" => "page_fetch" \notin io)

\* C11, amended: when a page yields no link the round stops there, the Cursor and the Index (in memory and persisted) as they
\* were; when the round had found no new file before that page, the
\* invocation ends in "done" and neither fetches a listing page nor starts a
\* download after it.
C11_EmptyExtractionStopsRound ==
    /\ [][EmptyPageStep =>
            /\ pc' = "scrape_return"
            /\ state_file' = state_file /\ state' = state
            /\ index_file' = index_file /\ all_files' = all_files]_vars
    /\ []((hist.stop = "empty" /\ ~hist.stop_found) =>
             /\ pc \in {"scrape_return", "done"}
             /\ io \cap {"page_fetch", "batch_start", "http_get"} = {})

\* An invocation that indexed files and then ended on a page without links.
C11_Witness ==
    /\ pc = "done"
    /\ hist.stop = "empty"
    /\ ~hist.stop_found
    /\ Len(all_files) > hist.start_len

\* C12: the crawl phase is entered only when nothing is pending.  Whenever the
\* Orchestrator calls the Navigator for a round every record of the Index is
\* downloaded; "done" is reached only from a round that returned no new file;
\* and at "done" no record is pending, in memory or persisted.
C12_CrawlOnlyWhenDrained ==
    /\ [](pc = "scrape_start" =>
             \A k \in 1..Len(all_files) : all_files[k].downloaded)
    /\ [][(pc # "done" /\ pc' = "done") =>
            (pc = "scrape_return" /\ new_files = << >>)]_vars
    /\ [](pc = "done" =>
             /\ index_file = all_files
             /\ \A k \in 1..Len(index_file) : index_file[k].downloaded)

\* An invocation that started from an empty Index, indexed every file of the
\* listing and declared completion.
C12_Witness ==
    /\ pc = "done"
    /\ hist.start_len = 0
    /\ Names(all_files) = Files

\* An href that is a file reference: it holds the marker and ends in ".pdf",
\* in any case.
IsFileRef(h) == h.marker /\ h.ext \in {"pdf", "PDF"}

\* Token n of the markup carries the href h.
Occurs(h, n) == html[n].kind \in {"a", "attr"} /\ html[n].href = h

\* Some anchor element of the markup carries the marker: the structural
\* strategy finds something.
Structural == \E n \in 1..Len(html) : html[n].kind = "a" /\ html[n].href.marker

\* C13: what the link collection step returns for a page holds no reference
\* twice, holds only file references (marker, ".pdf" ending), holds every file
\* reference the strategy in use can see, in the order of their first
\* occurrence in the markup, and is empty for an empty markup.
C13_LinksDedupOrdered ==
    pc \in {"page_empty", "page_links"} =>
      /\ \A j, k \in 1..Len(links) : j # k => links[j] # links[k]
      /\ \A k \in 1..Len(links) : IsFileRef(links[k])
      /\ \A n \in 1..Len(html) :
            ( /\ html[n].kind \in {"a", "attr"}
              /\ IsFileRef(html[n].href)
              /\ html[n].kind = "a" \/ ~Structural )
            => \E k \in 1..Len(links) : links[k] = html[n].href
      /\ \A k \in 1..Len(links) : \E n \in 1..Len(html) : Occurs(links[k], n)
      /\ \A j, k \in 1..Len(links) :
            j < k => \E n \in 1..Len(html) :
                        /\ Occurs(links[j], n)
                        /\ \A n2 \in 1..n : ~Occurs(links[k], n2)
      /\ Len(html) = 0 => links = << >>

\* The markup holds the phrase, in any case.
HasPhrase(phrase) ==
    \E k \in 1..Len(html) : html[k].kind = "text" /\ html[k].phrase = phrase

\* C16: the Access-Gate Detector answers blocked exactly for a markup that
\* holds, in any case, the permission-denied phrase, or the edge-network error
\* signature, or both "reference #" and "access denied"; a markup of nothing
\* but the age prompt, and the empty markup, are not blocked.
C16_AccessDeniedExactly ==
    pc \in {"page_denied", "page_clear", "page_empty", "page_links"} =>
      /\ pc = "page_denied" <=>
            \/ HasPhrase(PermissionPhrase)
            \/ HasPhrase(EdgePhrase)
            \/ HasPhrase(ReferencePhrase) /\ HasPhrase(DeniedPhrase)
      /\ (\A k \in 1..Len(html) :
             html[k].kind = "text" /\ html[k].phrase = AgePhrase)
          => pc # "page_denied"

\* A markup blocked for "Reference #" in capitals together with "access
\* denied", and for nothing else.
C16_Witness ==
    /\ pc = "page_denied"
    /\ ~HasPhrase(PermissionPhrase)
    /\ ~HasPhrase(EdgePhrase)
    /\ \E k \in 1..Len(html) :
          html[k].kind = "text" /\ html[k].phrase = ReferencePhrase /\ html[k].upper

\* C14: fault containment.  A fault raised while a listing page is fetched or
\* a file is downloaded ends the round or is counted as the failure of that
\* file; the invocation never ends on a fault nobody handled.
C14_FaultContained == pc # "crashed"

\* C15: Index writes are never batched.  In the Downloader, once a record of
\* the batch is finished (downloaded, skipped or failed) and before the next
\* record is begun or the batch returns, the persisted Index equals the Index
\* in memory; a write of the Index that fails ends the process there: the
\* write is not tried again and the invocation takes no further step.
C15_IndexSavedPerRecord ==
    /\ []((pc = "dl_check" /\ i > 1) => index_file = all_files)
    /\ [][(pc \in {"dl_check", "dl_save"} /\ i' = i + 1) =>
            index_file' = all_files']_vars
    /\ []("save_failed" \in io => pc = "crashed")
    /\ [][(pc = "crashed" /\ SameRun) => UNCHANGED vars]_vars

\* A batch in which a record was downloaded, one was skipped and one failed,
\* between two records or before the return.
C15_Witness ==
    /\ pc = "dl_check"
    /\ downloaded > 0
    /\ skipped > 0
    /\ failed > 0

\* The process was ended by a write of the Index that failed within a batch.
C15_WitnessAbort ==
    /\ pc = "crashed"
    /\ io = {"save_failed"}
    /\ caller # "none"
    /\ index_file # all_files

\* C17: a hard block is never reported as completion.  The Orchestrator
\* reaches "done" ("All done") only when its last round stopped at the end of
\* the pagination, never when that round was stopped by a blocked page.
C17_BlockIsNotCompletion == pc = "done" => hist.stop # "blocked"

\* C18: no discovered file is lost when the Cursor moves on.  For every batch
\* size, when the Cursor is advanced past the page just scraped, every file
\* name among the links extracted from that page has a record in the Index.
C18_NoFileLostOnAdvance ==
    [][(pc = "advance" /\ pc' = "save_index") =>
         \A n \in 1..Len(Listing(page)) :
            Filename(Listing(page)[n]) \in Names(all_files')]_vars

\* Every file name among the links of the pages below the Cursor st has a
\* record in the Index idx.
PassedPagesIndexed(idx, st) ==
    \A p \in Pages :
        p < st.next_page =>
            \A n \in 1..Len(Listing(p)) : Filename(Listing(p)[n]) \in Names(idx)

Over == pc \in {"done", "halted", "crashed"}

====
